---------------------------- MODULE Spec2Model ----------------------------
(***************************************************************************)
(* The in-memory evaluation repository (sync and async variant, called    *)
(* one call at a time and by concurrent writer threads), the request       *)
(* shaping of the Llama3 control model and the cached context_size of the  *)
(* model objects of intelligence_layer.                                    *)
(*                                                                         *)
(* Strings that are compared with < by the code (ids) are sequences of     *)
(* character codes and are compared as Python compares str values.         *)
(* A Python dict is a sequence of <<key, value>> items in insertion order; *)
(* the defaultdict of result lists, whose key order is never observed, is  *)
(* a function whose DOMAIN is the set of its keys.                         *)
(***************************************************************************)
EXTENDS Naturals, Sequences, FiniteSets

VARIABLES
    cls,      \* the class of the repository object
    self,     \* the repository object: its three attributes
    before,   \* the repository object as it was when the last call began
    last,     \* the last call: operation, arguments, outcome
    passed,   \* history: the ids each store operation was given
    model,    \* the class of the model object
    given,    \* the stop_sequences the caller built the CompleteInput with
    input,    \* the stop_sequences the caller's CompleteInput holds now
    requests, \* the stop_sequences of the requests the client was given
    names,    \* the name of each model object
    cache,    \* the lru_cache of context_size, least recently used first
    returned, \* history: the first value context_size returned per object
    read,     \* the last context_size read
    threads,  \* the writer threads: their call, position and locals
    lists,    \* the list objects the writer threads created
    refs      \* the defaultdict of the writer threads: id -> list object

repo_vars == <<cls, self, before, last, passed>>

model_vars == <<model, given, input, requests>>

context_vars == <<names, cache, returned, read>>

thread_vars == <<threads, lists, refs>>

vars == <<repo_vars, model_vars, context_vars, thread_vars>>

----------------------------------------------------------------------------
(* Bounds and input domains *)

\* the number of store_example_evaluation calls a behaviour makes
MaxEvaluations == 3

\* "a", "ab", "b" as character codes
EvaluationIds == {<<1, 2>>, <<2>>}
ExampleIds == {<<1>>, <<1, 2>>, <<2>>}

\* the run metadata of an overview, the payload of an example evaluation
RunData == {"r1", "r2"}
Results == {"pass"}

EvaluationOverviews == [id : EvaluationIds, run : RunData]
PartialEvaluationOverviews == [id : EvaluationIds, run : RunData]
ExampleEvaluations ==
    [evaluation_id : EvaluationIds, example_id : ExampleIds, result : Results]

Classes == {"InMemoryEvaluationRepository", "AsyncInMemoryEvaluationRepository"}

\* the length of the stop_sequences list a caller gives
MaxStopSequences == 3

\* the complete calls made with one CompleteInput
MaxCompletes == 2

EOT_TOKEN == "<|eot_id|>"

StopSequences == {EOT_TOKEN, "\n", "###"}

ControlModels ==
    {"LuminousControlModel", "Llama2InstructModel", "Llama3InstructModel"}

\* the model objects whose context_size reads are followed
ModelObjects == {"m1", "m2"}

\* the names the model objects are constructed with
ModelNames == {"luminous-base-control", "llama-3-8b-instruct", "llama-2-7b-chat"}

\* what self._client.models() answers
models_info ==
    <<[name |-> "luminous-base-control", max_context_size |-> 2048],
      [name |-> "llama-3-8b-instruct", max_context_size |-> 8192]>>

\* lru_cache(maxsize=10) of context_size
maxsize == 10

----------------------------------------------------------------------------
(* Python values and built-ins *)

\* the outcome of a call: a returned value, a returned None, a raised ValueError
Return(v) == [kind |-> "return", val |-> v]
None == [kind |-> "None", val |-> <<>>]
ValueError == [kind |-> "ValueError", val |-> <<>>]

\* an Optional[List[str]]: None or a list
PyNone == [type |-> "NoneType", items |-> <<>>]
PyList(items) == [type |-> "list", items |-> items]

\* str.__lt__: the first differing character decides, a proper prefix is smaller
StrLess(a, b) ==
    \/ \E i \in 1..Len(a) :
          /\ i <= Len(b)
          /\ \A j \in 1..(i - 1) : a[j] = b[j]
          /\ a[i] < b[i]
    \/ /\ Len(a) < Len(b)
       /\ \A j \in 1..Len(a) : a[j] = b[j]

\* dict: key in d, d.keys(), d.get(key, None), d[key] = value
DictHas(d, key) == \E i \in 1..Len(d) : d[i][1] = key

DictKeys(d) == [i \in 1..Len(d) |-> d[i][1]]

DictGet(d, key) ==
    IF DictHas(d, key)
    THEN Return(d[CHOOSE i \in 1..Len(d) : d[i][1] = key][2])
    ELSE None

\* mutant: the item is always added at the end, an old item of the key stays
DictSet_appended(d, key, value) == Append(d, <<key, value>>)

DictSet(d, key, value) ==
    IF DictHas(d, key)
    THEN [i \in 1..Len(d) |-> IF d[i][1] = key THEN <<key, value>> ELSE d[i]]
    ELSE Append(d, <<key, value>>)

\* one step of a stable sort of <<key, item>> pairs: x goes behind every
\* pair whose key is not greater
InsertStable(s, x) ==
    LET n == Cardinality({i \in 1..Len(s) : \A j \in 1..i : ~StrLess(x[1], s[j][1])})
    IN  SubSeq(s, 1, n) \o <<x>> \o SubSeq(s, n + 1, Len(s))

RECURSIVE SortStable(_)
\* the stable ascending sort of <<key, item>> pairs by their str keys
SortStable(s) ==
    IF s = <<>> THEN <<>>
    ELSE InsertStable(SortStable(SubSeq(s, 1, Len(s) - 1)), s[Len(s)])

\* mutant: the list as stored, in insertion order
sorted_by_example_id_unsorted(s) == s

\* sorted(s, key=lambda i: i.example_id)
sorted_by_example_id(s) ==
    LET keyed == SortStable([i \in 1..Len(s) |-> <<s[i].example_id, s[i]>>])
    IN  [i \in 1..Len(s) |-> keyed[i][2]]

\* mutant: the keys as stored, in insertion order
sorted_ids_unsorted(s) == s

\* sorted(s) of a list of str
sorted_ids(s) ==
    LET keyed == SortStable([i \in 1..Len(s) |-> <<s[i], s[i]>>])
    IN  [i \in 1..Len(s) |-> keyed[i][2]]

----------------------------------------------------------------------------
(* InMemoryEvaluationRepository and AsyncInMemoryEvaluationRepository:     *)
(* the reads, as functions of the object                                   *)

evaluation_overview(repo, evaluation_id) ==
    DictGet(repo._evaluation_overviews, evaluation_id)

evaluation_overview_ids(repo) ==
    Return(sorted_ids(DictKeys(repo._evaluation_overviews)))

\* mutant: no membership check, the defaultdict answers with an empty list
example_evaluations_unchecked(repo, evaluation_id) ==
    Return(sorted_by_example_id(
        IF evaluation_id \in DOMAIN repo._example_evaluations
        THEN repo._example_evaluations[evaluation_id] ELSE <<>>))

example_evaluations(repo, evaluation_id) ==
    IF evaluation_id \notin DOMAIN repo._example_evaluations
    THEN ValueError
    ELSE Return(sorted_by_example_id(repo._example_evaluations[evaluation_id]))

\* mutant: an overview id without a collection is answered with None
example_evaluation_absent(repo, evaluation_id, example_id) ==
    IF evaluation_id \notin DOMAIN repo._example_evaluations THEN None
    ELSE LET filtered == SelectSeq(
                 sorted_by_example_id(repo._example_evaluations[evaluation_id]),
                 LAMBDA result : result.example_id = example_id)
         IN  IF filtered = <<>> THEN None ELSE Return(Head(filtered))

\* mutant: the first result of the overview, whatever its example id
example_evaluation_unfiltered(repo, evaluation_id, example_id) ==
    LET results == example_evaluations(repo, evaluation_id)
    IN  IF results.kind = "ValueError" THEN ValueError
        ELSE IF results.val = <<>> THEN None ELSE Return(Head(results.val))

example_evaluation(repo, evaluation_id, example_id) ==
    LET results == example_evaluations(repo, evaluation_id)
    IN  IF results.kind = "ValueError" THEN ValueError
        ELSE LET filtered == SelectSeq(results.val,
                                 LAMBDA result : result.example_id = example_id)
             IN  IF filtered = <<>> THEN None ELSE Return(Head(filtered))

partial_evaluation_overview(repo, evaluation_id) ==
    DictGet(repo._partial_evaluation_overviews, evaluation_id)

partial_evaluation_overview_ids(repo) ==
    Return(sorted_ids(DictKeys(repo._partial_evaluation_overviews)))

----------------------------------------------------------------------------
(* The state after construction *)

RECURSIVE SumOfLengths(_, _)
SumOfLengths(d, keys) ==
    IF keys = {} THEN 0
    ELSE LET k == CHOOSE k \in keys : TRUE
         IN  Len(d[k]) + SumOfLengths(d, keys \ {k})

\* the number of example evaluations the repository holds
TotalEvaluations ==
    SumOfLengths(self._example_evaluations, DOMAIN self._example_evaluations)

Called(op, args, ret) == [op |-> op, args |-> args, ret |-> ret]

\* history of the ids passed to the three store operations
Passed(op, id) == [passed EXCEPT ![op] = @ \cup {id}]

NothingPassed ==
    [store_evaluation_overview |-> {},
     store_partial_evaluation_overview |-> {},
     store_example_evaluation |-> {}]

\* a model object that was given no input yet
NoModelCall ==
    /\ model = "Llama3InstructModel"
    /\ given = PyNone
    /\ input = PyNone
    /\ requests = <<>>

\* no context_size was read yet: the cache of the class is empty
NoContextRead ==
    /\ cache = <<>>
    /\ returned = [o \in ModelObjects |-> None]
    /\ read = [object |-> "", ret |-> None, queried |-> FALSE, again |-> FALSE]

\* no writer thread was started
NoThreads ==
    /\ threads = <<>>
    /\ lists = <<>>
    /\ refs = <<>>

\* __init__ of both classes: an empty defaultdict(list) and empty dicts
Constructed ==
    [_example_evaluations |-> <<>>,
     _evaluation_overviews |-> <<>>,
     _partial_evaluation_overviews |-> <<>>]

Init ==
    /\ cls = "InMemoryEvaluationRepository"
    /\ self = Constructed
    /\ before = Constructed
    /\ last = Called("__init__", <<>>, None)
    /\ passed = NothingPassed
    /\ NoModelCall
    /\ names = [o \in ModelObjects |-> "luminous-base-control"]
    /\ NoContextRead
    /\ NoThreads

----------------------------------------------------------------------------
(* The operations *)

\* mutant: the empty list is not created
EnsureList_skipped(d, key) == d

\* if key not in d.keys(): d[key] = []
EnsureList(d, key) ==
    IF key \notin DOMAIN d
    THEN [k \in DOMAIN d \cup {key} |-> IF k = key THEN <<>> ELSE d[k]]
    ELSE d

\* mutant: an entry of the same example id is replaced, not kept
AppendToList_dedup(d, key, x) ==
    [k \in DOMAIN d \cup {key} |->
        IF k = key
        THEN Append(IF key \in DOMAIN d
                    THEN SelectSeq(d[key], LAMBDA y : y.example_id # x.example_id)
                    ELSE <<>>, x)
        ELSE d[k]]

\* d[key].append(x) on a defaultdict(list): a missing key is created
AppendToList(d, key, x) ==
    [k \in DOMAIN d \cup {key} |->
        IF k = key
        THEN Append(IF key \in DOMAIN d THEN d[key] ELSE <<>>, x)
        ELSE d[k]]

\* mutant: the final overview supersedes the partial overview of its id
store_evaluation_overview_superseding(overview) ==
    /\ self' = [self EXCEPT
                   !._evaluation_overviews = DictSet(@, overview.id, overview),
                   !._example_evaluations = EnsureList(@, overview.id),
                   !._partial_evaluation_overviews =
                       SelectSeq(@, LAMBDA item : item[1] # overview.id)]
    /\ before' = self
    /\ last' = Called("store_evaluation_overview", <<overview>>, None)
    /\ passed' = Passed("store_evaluation_overview", overview.id)
    /\ UNCHANGED <<cls, model_vars, context_vars, thread_vars>>

store_evaluation_overview(overview) ==
    /\ self' = [self EXCEPT
                   !._evaluation_overviews = DictSet(@, overview.id, overview),
                   !._example_evaluations = EnsureList(@, overview.id)]
    /\ before' = self
    /\ last' = Called("store_evaluation_overview", <<overview>>, None)
    /\ passed' = Passed("store_evaluation_overview", overview.id)
    /\ UNCHANGED <<cls, model_vars, context_vars, thread_vars>>

store_example_evaluation(evaluation) ==
    /\ TotalEvaluations < MaxEvaluations
    /\ self' = [self EXCEPT
                   !._example_evaluations =
                       AppendToList(@, evaluation.evaluation_id, evaluation)]
    /\ before' = self
    /\ last' = Called("store_example_evaluation", <<evaluation>>, None)
    /\ passed' = Passed("store_example_evaluation", evaluation.evaluation_id)
    /\ UNCHANGED <<cls, model_vars, context_vars, thread_vars>>

\* mutant: the partial overview is stored, the collection is not created
store_partial_evaluation_overview_alone(overview) ==
    /\ cls = "AsyncInMemoryEvaluationRepository"
    /\ self' = [self EXCEPT
                   !._partial_evaluation_overviews =
                       DictSet(@, overview.id, overview)]
    /\ before' = self
    /\ last' = Called("store_partial_evaluation_overview", <<overview>>, None)
    /\ passed' = Passed("store_partial_evaluation_overview", overview.id)
    /\ UNCHANGED <<cls, model_vars, context_vars, thread_vars>>

store_partial_evaluation_overview(overview) ==
    /\ cls = "AsyncInMemoryEvaluationRepository"
    /\ self' = [self EXCEPT
                   !._partial_evaluation_overviews =
                       DictSet(@, overview.id, overview),
                   !._example_evaluations = EnsureList(@, overview.id)]
    /\ before' = self
    /\ last' = Called("store_partial_evaluation_overview", <<overview>>, None)
    /\ passed' = Passed("store_partial_evaluation_overview", overview.id)
    /\ UNCHANGED <<cls, model_vars, context_vars, thread_vars>>

call_evaluation_overview(evaluation_id) ==
    /\ last' = Called("evaluation_overview", <<evaluation_id>>,
                      evaluation_overview(self, evaluation_id))
    /\ before' = self
    /\ UNCHANGED <<cls, self, passed, model_vars, context_vars, thread_vars>>

call_evaluation_overview_ids ==
    /\ last' = Called("evaluation_overview_ids", <<>>,
                      evaluation_overview_ids(self))
    /\ before' = self
    /\ UNCHANGED <<cls, self, passed, model_vars, context_vars, thread_vars>>

call_example_evaluation(evaluation_id, example_id) ==
    /\ last' = Called("example_evaluation", <<evaluation_id, example_id>>,
                      example_evaluation(self, evaluation_id, example_id))
    /\ before' = self
    /\ UNCHANGED <<cls, self, passed, model_vars, context_vars, thread_vars>>

\* mutant: the lookup subscripts the defaultdict, which creates the key
call_example_evaluations_registering(evaluation_id) ==
    /\ last' = Called("example_evaluations", <<evaluation_id>>,
                      example_evaluations(self, evaluation_id))
    /\ before' = self
    /\ self' = [self EXCEPT
                   !._example_evaluations = EnsureList(@, evaluation_id)]
    /\ UNCHANGED <<cls, passed, model_vars, context_vars, thread_vars>>

call_example_evaluations(evaluation_id) ==
    /\ last' = Called("example_evaluations", <<evaluation_id>>,
                      example_evaluations(self, evaluation_id))
    /\ before' = self
    /\ UNCHANGED <<cls, self, passed, model_vars, context_vars, thread_vars>>

call_partial_evaluation_overview(evaluation_id) ==
    /\ cls = "AsyncInMemoryEvaluationRepository"
    /\ last' = Called("partial_evaluation_overview", <<evaluation_id>>,
                      partial_evaluation_overview(self, evaluation_id))
    /\ before' = self
    /\ UNCHANGED <<cls, self, passed, model_vars, context_vars, thread_vars>>

call_partial_evaluation_overview_ids ==
    /\ cls = "AsyncInMemoryEvaluationRepository"
    /\ last' = Called("partial_evaluation_overview_ids", <<>>,
                      partial_evaluation_overview_ids(self))
    /\ before' = self
    /\ UNCHANGED <<cls, self, passed, model_vars, context_vars, thread_vars>>

----------------------------------------------------------------------------
(* Spec: an InMemoryEvaluationRepository given every overview and every    *)
(* example evaluation of the input domains.                                *)

Next ==
    \/ \E overview \in EvaluationOverviews : store_evaluation_overview(overview)
    \/ \E evaluation \in ExampleEvaluations : store_example_evaluation(evaluation)
    \/ \E evaluation_id \in EvaluationIds : call_evaluation_overview(evaluation_id)
    \/ call_evaluation_overview_ids
    \/ \E evaluation_id \in EvaluationIds, example_id \in ExampleIds :
           call_example_evaluation(evaluation_id, example_id)
    \/ \E evaluation_id \in EvaluationIds : call_example_evaluations(evaluation_id)

Spec == Init /\ [][Next]_vars

(* SpecAsync: a repository of either class given every overview and every  *)
(* partial overview, and the evaluations of one example.                   *)

InitAsync ==
    /\ cls \in Classes
    /\ self = Constructed
    /\ before = Constructed
    /\ last = Called("__init__", <<>>, None)
    /\ passed = NothingPassed
    /\ NoModelCall
    /\ names = [o \in ModelObjects |-> "luminous-base-control"]
    /\ NoContextRead
    /\ NoThreads

NextAsync ==
    \/ \E overview \in EvaluationOverviews : store_evaluation_overview(overview)
    \/ \E evaluation \in {e \in ExampleEvaluations : e.example_id = <<1>>} :
           store_example_evaluation(evaluation)
    \/ \E overview \in PartialEvaluationOverviews :
           store_partial_evaluation_overview(overview)
    \/ \E evaluation_id \in EvaluationIds : call_evaluation_overview(evaluation_id)
    \/ call_evaluation_overview_ids
    \/ \E evaluation_id \in EvaluationIds :
           call_example_evaluation(evaluation_id, <<1>>)
    \/ \E evaluation_id \in EvaluationIds : call_example_evaluations(evaluation_id)
    \/ \E evaluation_id \in EvaluationIds :
           call_partial_evaluation_overview(evaluation_id)
    \/ call_partial_evaluation_overview_ids

SpecAsync == InitAsync /\ [][NextAsync]_vars

----------------------------------------------------------------------------
(* The control models: complete *)

RECURSIVE ListsUpTo(_)
ListsUpTo(n) ==
    IF n = 0 THEN {<<>>}
    ELSE ListsUpTo(n - 1) \cup
         {Append(l, x) : l \in {l \in ListsUpTo(n - 1) : Len(l) = n - 1},
                         x \in StopSequences}

StopSequenceValues == {PyNone} \cup {PyList(l) : l \in ListsUpTo(MaxStopSequences)}

\* mutant: the marker is appended without looking for it
add_eot_token_always(stop_sequences) ==
    IF stop_sequences.type = "list"
    THEN PyList(Append(stop_sequences.items, EOT_TOKEN))
    ELSE PyList(<<EOT_TOKEN>>)

\* Llama3InstructModel._add_eot_token_to_stop_sequences, on the
\* stop_sequences entry of input.__dict__
_add_eot_token_to_stop_sequences(stop_sequences) ==
    IF stop_sequences.type = "list"
    THEN IF \A i \in 1..Len(stop_sequences.items) :
                stop_sequences.items[i] # EOT_TOKEN
         THEN PyList(Append(stop_sequences.items, EOT_TOKEN))
         ELSE stop_sequences
    ELSE PyList(<<EOT_TOKEN>>)

\* the caller builds a CompleteInput
CompleteInput(stop_sequences) ==
    /\ given' = stop_sequences
    /\ input' = stop_sequences
    /\ requests' = <<>>
    /\ UNCHANGED <<model, repo_vars, context_vars, thread_vars>>

\* Llama3InstructModel.complete: params is input.__dict__ itself, so the
\* shaping writes to the caller's object, and the shaped value is sent
Llama3InstructModel_complete ==
    /\ model = "Llama3InstructModel"
    /\ Len(requests) < MaxCompletes
    /\ input' = _add_eot_token_to_stop_sequences(input)
    /\ requests' = Append(requests, _add_eot_token_to_stop_sequences(input))
    /\ UNCHANGED <<model, given, repo_vars, context_vars, thread_vars>>

\* AlephAlphaModel.complete of the other control models
AlephAlphaModel_complete ==
    /\ model # "Llama3InstructModel"
    /\ Len(requests) < MaxCompletes
    /\ requests' = Append(requests, input)
    /\ UNCHANGED <<model, given, input, repo_vars, context_vars, thread_vars>>

InitModel ==
    /\ cls = "InMemoryEvaluationRepository"
    /\ self = Constructed
    /\ before = Constructed
    /\ last = Called("__init__", <<>>, None)
    /\ passed = NothingPassed
    /\ model \in ControlModels
    /\ given \in StopSequenceValues
    /\ input = given
    /\ requests = <<>>
    /\ names = [o \in ModelObjects |-> "luminous-base-control"]
    /\ NoContextRead
    /\ NoThreads

NextModel ==
    \/ \E stop_sequences \in StopSequenceValues : CompleteInput(stop_sequences)
    \/ Llama3InstructModel_complete
    \/ AlephAlphaModel_complete

SpecModel == InitModel /\ [][NextModel]_vars

----------------------------------------------------------------------------
(* AlephAlphaModel.context_size: a property wrapped in lru_cache, so one   *)
(* cache of the class holds the values of all model objects, keyed by the  *)
(* object. The model objects besides ModelObjects are interchangeable: the *)
(* cache entry of one has the key "another".                               *)

\* the body of context_size: the first entry of the registry with the name
context_size_uncached(name) ==
    LET matching == SelectSeq(models_info, LAMBDA model_info : model_info.name = name)
    IN  IF matching = <<>> THEN ValueError
        ELSE Return(Head(matching).max_context_size)

\* lru_cache: a new entry, the least recently used entry goes when it is full
LruPut(c, key, value) ==
    IF Len(c) >= maxsize THEN Append(Tail(c), <<key, value>>)
    ELSE Append(c, <<key, value>>)

\* lru_cache: entry i was hit and is the most recently used now
LruTouch(c, i) == SubSeq(c, 1, i - 1) \o SubSeq(c, i + 1, Len(c)) \o <<c[i]>>

ContextRead(object, ret, queried, again) ==
    [object |-> object, ret |-> ret, queried |-> queried, again |-> again]

\* model.context_size of one of ModelObjects
context_size(o) ==
    /\ IF \E i \in 1..Len(cache) : cache[i][1] = o
       THEN LET i == CHOOSE i \in 1..Len(cache) : cache[i][1] = o
            IN  /\ cache' = LruTouch(cache, i)
                /\ read' = ContextRead(o, Return(cache[i][2]), FALSE,
                                       returned[o].kind = "return")
                /\ UNCHANGED returned
       ELSE LET ret == context_size_uncached(names[o])
            IN  /\ cache' = IF ret.kind = "return"
                            THEN LruPut(cache, o, ret.val) ELSE cache
                /\ read' = ContextRead(o, ret, TRUE, returned[o].kind = "return")
                /\ returned' = IF returned[o].kind = "None"
                               THEN [returned EXCEPT ![o] = ret] ELSE returned
    /\ UNCHANGED <<names, repo_vars, model_vars, thread_vars>>

\* context_size of a model object that never had it read
context_size_of_new_object ==
    LET ret == context_size_uncached("luminous-base-control")
    IN  /\ cache' = LruPut(cache, "another", ret.val)
        /\ read' = ContextRead("another", ret, TRUE, FALSE)
        /\ UNCHANGED <<names, returned, repo_vars, model_vars, thread_vars>>

\* context_size of the other model object that has entry i of the cache
context_size_of_cached_object(i) ==
    /\ i \in 1..Len(cache)
    /\ cache[i][1] = "another"
    /\ cache' = LruTouch(cache, i)
    /\ read' = ContextRead("another", Return(cache[i][2]), FALSE, TRUE)
    /\ UNCHANGED <<names, returned, repo_vars, model_vars, thread_vars>>

InitContext ==
    /\ cls = "InMemoryEvaluationRepository"
    /\ self = Constructed
    /\ before = Constructed
    /\ last = Called("__init__", <<>>, None)
    /\ passed = NothingPassed
    /\ NoModelCall
    /\ names \in [ModelObjects -> ModelNames]
    /\ NoContextRead
    /\ NoThreads

NextContext ==
    \/ \E o \in ModelObjects : context_size(o)
    \/ context_size_of_new_object
    \/ \E i \in 1..maxsize : context_size_of_cached_object(i)

SpecContext == InitContext /\ [][NextContext]_vars

----------------------------------------------------------------------------
(* Concurrent writers of one AsyncInMemoryEvaluationRepository. Each       *)
(* thread makes one store call; a step of a thread is one dictionary read, *)
(* one dictionary assignment or one list append. The lists are objects:    *)
(* refs maps an overview id to the list object the defaultdict holds for   *)
(* it, lists holds the content of every list object that was created.      *)

Writers == {"overview", "partial", "example1", "example2"}

\* one call per thread: every thread may be given either overview id, the
\* two store_example_evaluation threads have different example ids
WriterCalls ==
    {c \in [Writers -> [op : DOMAIN NothingPassed,
                        arg : EvaluationOverviews \cup ExampleEvaluations]] :
        /\ c["overview"].op = "store_evaluation_overview"
        /\ c["overview"].arg \in [id : EvaluationIds, run : {"r1"}]
        /\ c["partial"].op = "store_partial_evaluation_overview"
        /\ c["partial"].arg \in [id : EvaluationIds, run : {"r2"}]
        /\ c["example1"].op = "store_example_evaluation"
        /\ c["example1"].arg \in ExampleEvaluations
        /\ c["example1"].arg.example_id = <<1>>
        /\ c["example2"].op = "store_example_evaluation"
        /\ c["example2"].arg \in ExampleEvaluations
        /\ c["example2"].arg.example_id = <<2>>}

\* the defaultdict as the reads see it: each key with the content of its list
Dereferenced(r, l) == [id \in DOMAIN r |-> l[r[id]]]

\* d[key] = [] : a new, empty list object
NewList(r, l, key) ==
    [k \in DOMAIN r \cup {key} |-> IF k = key THEN Len(l) + 1 ELSE r[k]]

At(t, op, pc) == threads[t].op = op /\ threads[t].pc = pc

Goto(t, pc) == [threads EXCEPT ![t].pc = pc]

\* line 33: self._evaluation_overviews[overview.id] = overview
store_evaluation_overview_assign(t) ==
    /\ At(t, "store_evaluation_overview", "assign")
    /\ self' = [self EXCEPT !._evaluation_overviews =
                                DictSet(@, threads[t].arg.id, threads[t].arg)]
    /\ passed' = Passed("store_evaluation_overview", threads[t].arg.id)
    /\ threads' = Goto(t, "check")
    /\ UNCHANGED <<cls, before, last, lists, refs, model_vars, context_vars>>

\* line 34: if overview.id not in self._example_evaluations.keys()
store_evaluation_overview_check(t) ==
    /\ At(t, "store_evaluation_overview", "check")
    /\ threads' = Goto(t, IF threads[t].arg.id \notin DOMAIN refs
                          THEN "create" ELSE "done")
    /\ UNCHANGED <<repo_vars, lists, refs, model_vars, context_vars>>

\* line 35: self._example_evaluations[overview.id] = []
store_evaluation_overview_create(t) ==
    /\ At(t, "store_evaluation_overview", "create")
    /\ refs' = NewList(refs, lists, threads[t].arg.id)
    /\ lists' = Append(lists, <<>>)
    /\ self' = [self EXCEPT !._example_evaluations = Dereferenced(refs', lists')]
    /\ threads' = Goto(t, "done")
    /\ UNCHANGED <<cls, before, last, passed, model_vars, context_vars>>

\* line 82: self._partial_evaluation_overviews[overview.id] = overview
store_partial_evaluation_overview_assign(t) ==
    /\ At(t, "store_partial_evaluation_overview", "assign")
    /\ self' = [self EXCEPT !._partial_evaluation_overviews =
                                DictSet(@, threads[t].arg.id, threads[t].arg)]
    /\ passed' = Passed("store_partial_evaluation_overview", threads[t].arg.id)
    /\ threads' = Goto(t, "check")
    /\ UNCHANGED <<cls, before, last, lists, refs, model_vars, context_vars>>

\* line 83: if overview.id not in self._example_evaluations.keys()
store_partial_evaluation_overview_check(t) ==
    /\ At(t, "store_partial_evaluation_overview", "check")
    /\ threads' = Goto(t, IF threads[t].arg.id \notin DOMAIN refs
                          THEN "create" ELSE "done")
    /\ UNCHANGED <<repo_vars, lists, refs, model_vars, context_vars>>

\* line 84: self._example_evaluations[overview.id] = []
store_partial_evaluation_overview_create(t) ==
    /\ At(t, "store_partial_evaluation_overview", "create")
    /\ refs' = NewList(refs, lists, threads[t].arg.id)
    /\ lists' = Append(lists, <<>>)
    /\ self' = [self EXCEPT !._example_evaluations = Dereferenced(refs', lists')]
    /\ threads' = Goto(t, "done")
    /\ UNCHANGED <<cls, before, last, passed, model_vars, context_vars>>

\* line 46, the subscript self._example_evaluations[id]: the defaultdict
\* gives the list of the id, a new empty one when the id is missing
store_example_evaluation_subscript(t) ==
    /\ At(t, "store_example_evaluation", "subscript")
    /\ LET id == threads[t].arg.evaluation_id
       IN  /\ IF id \in DOMAIN refs
              THEN UNCHANGED <<lists, refs>>
              ELSE /\ refs' = NewList(refs, lists, id)
                   /\ lists' = Append(lists, <<>>)
           /\ threads' = [threads EXCEPT ![t].pc = "append",
                                         ![t].list = refs'[id]]
           /\ passed' = Passed("store_example_evaluation", id)
    /\ self' = [self EXCEPT !._example_evaluations = Dereferenced(refs', lists')]
    /\ UNCHANGED <<cls, before, last, model_vars, context_vars>>

\* line 46, .append(evaluation) on the list the subscript gave
store_example_evaluation_append(t) ==
    /\ At(t, "store_example_evaluation", "append")
    /\ lists' = [lists EXCEPT ![threads[t].list] = Append(@, threads[t].arg)]
    /\ self' = [self EXCEPT !._example_evaluations = Dereferenced(refs, lists')]
    /\ threads' = Goto(t, "done")
    /\ UNCHANGED <<cls, before, last, passed, refs, model_vars, context_vars>>

InitConcurrent ==
    /\ cls = "AsyncInMemoryEvaluationRepository"
    /\ self = Constructed
    /\ before = Constructed
    /\ last = Called("__init__", <<>>, None)
    /\ passed = NothingPassed
    /\ NoModelCall
    /\ names = [o \in ModelObjects |-> "luminous-base-control"]
    /\ NoContextRead
    /\ \E c \in WriterCalls :
           threads = [t \in Writers |->
                        [op |-> c[t].op, arg |-> c[t].arg, list |-> 0,
                         pc |-> IF c[t].op = "store_example_evaluation"
                                THEN "subscript" ELSE "assign"]]
    /\ lists = <<>>
    /\ refs = <<>>

NextConcurrent ==
    \E t \in Writers :
        \/ store_evaluation_overview_assign(t)
        \/ store_evaluation_overview_check(t)
        \/ store_evaluation_overview_create(t)
        \/ store_partial_evaluation_overview_assign(t)
        \/ store_partial_evaluation_overview_check(t)
        \/ store_partial_evaluation_overview_create(t)
        \/ store_example_evaluation_subscript(t)
        \/ store_example_evaluation_append(t)

SpecConcurrent == InitConcurrent /\ [][NextConcurrent]_vars

----------------------------------------------------------------------------
(* Properties of the repository *)

Returned(r) == r.kind = "return"
ReturnedNone(r) == r.kind = "None"
Raised(r) == r.kind = "ValueError"

\* r is a returned value equal to v
Returns(r, v) == Returned(r) /\ r.val = v

\* two calls ended the same way
SameOutcome(r1, r2) ==
    /\ r1.kind = r2.kind
    /\ Returned(r1) => r1.val = r2.val

Elements(s) == {s[i] : i \in 1..Len(s)}

Count(s, x) == Cardinality({i \in 1..Len(s) : s[i] = x})

\* the strs of s are strictly ascending, so s has no duplicates
StrictlyAscending(s) ==
    \A i \in 1..Len(s) : \A j \in (i + 1)..Len(s) : StrLess(s[i], s[j])

ExampleIdsOf(s) == [i \in 1..Len(s) |-> s[i].example_id]

NeverPassed(id) ==
    /\ id \notin passed.store_evaluation_overview
    /\ id \notin passed.store_partial_evaluation_overview
    /\ id \notin passed.store_example_evaluation

\* C1 as stated: for every id never passed to store_evaluation_overview,
\* example_evaluations raises the not-found error and evaluation_overview
\* returns None.
C1_AsStated ==
    \A id \in EvaluationIds :
        id \notin passed.store_evaluation_overview =>
            /\ Raised(example_evaluations(self, id))
            /\ ReturnedNone(evaluation_overview(self, id))

\* C1 amended: for every id never passed to store_evaluation_overview,
\* evaluation_overview returns None; example_evaluations raises the not-found
\* error for every id that was passed to none of store_evaluation_overview,
\* store_partial_evaluation_overview and store_example_evaluation (as the
\* evaluation_id of the evaluation).
C1_NeverStoredIsNotFound ==
    \A id \in EvaluationIds :
        /\ id \notin passed.store_evaluation_overview =>
               ReturnedNone(evaluation_overview(self, id))
        /\ NeverPassed(id) => Raised(example_evaluations(self, id))

\* the lookup of an id no store was given raised, after all three kinds of
\* store of another id
C1_Witness ==
    /\ last.op = "example_evaluations"
    /\ Raised(last.ret)
    /\ NeverPassed(last.args[1])
    /\ passed.store_evaluation_overview # {}
    /\ passed.store_example_evaluation # {}
    /\ passed.store_partial_evaluation_overview # {}

\* C2 as stated: right after store_evaluation_overview(o), evaluation_overview
\* returns o and example_evaluations returns the empty sequence.
C2_AsStated ==
    last.op = "store_evaluation_overview" =>
        /\ Returns(evaluation_overview(self, last.args[1].id), last.args[1])
        /\ Returns(example_evaluations(self, last.args[1].id), <<>>)

\* C2 amended: right after store_evaluation_overview(o), evaluation_overview
\* returns o and example_evaluations returns a sequence without raising: the
\* empty one when it raised for that id before the call, and otherwise the
\* sequence it returned before the call.
C2_StoredOverviewIsReadable ==
    last.op = "store_evaluation_overview" =>
        LET o == last.args[1]
        IN  /\ Returns(evaluation_overview(self, o.id), o)
            /\ IF Raised(example_evaluations(before, o.id))
               THEN Returns(example_evaluations(self, o.id), <<>>)
               ELSE SameOutcome(example_evaluations(self, o.id),
                                example_evaluations(before, o.id))

\* the first store of an id: the overview is there and its collection is empty
C2_Witness ==
    /\ last.op = "store_evaluation_overview"
    /\ Raised(example_evaluations(before, last.args[1].id))
    /\ Returns(evaluation_overview(self, last.args[1].id), last.args[1])
    /\ Returns(example_evaluations(self, last.args[1].id), <<>>)

\* C3: every id of a stored overview or partial overview has a collection,
\* so example_evaluations returns for it.
C3_StoredIdsHaveCollections ==
    \A id \in Elements(DictKeys(self._evaluation_overviews))
                \cup Elements(DictKeys(self._partial_evaluation_overviews)) :
        /\ id \in DOMAIN self._example_evaluations
        /\ Returned(example_evaluations(self, id))

\* an overview and a partial overview of different ids, no evaluation stored
C3_Witness ==
    /\ passed.store_example_evaluation = {}
    /\ Len(self._evaluation_overviews) = 1
    /\ Len(self._partial_evaluation_overviews) = 1
    /\ DictKeys(self._evaluation_overviews)
           # DictKeys(self._partial_evaluation_overviews)
    /\ \A id \in EvaluationIds : Returns(example_evaluations(self, id), <<>>)

Injections(n) == {f \in [1..n -> 1..n] : \A i, j \in 1..n : f[i] = f[j] => i = j}

\* C4: when the example ids stored under an overview id are pairwise distinct,
\* example_evaluations returns exactly the stored evaluations, strictly
\* ascending by example id, and every other order of insertion of the same
\* evaluations gives the same result.
C4_SortedByExampleId ==
    \A id \in DOMAIN self._example_evaluations :
        LET stored == self._example_evaluations[id]
            n == Len(stored)
            got == example_evaluations(self, id)
        IN  (\A i, j \in 1..n : stored[i].example_id = stored[j].example_id => i = j)
            =>
            /\ Returned(got)
            /\ Len(got.val) = n
            /\ Elements(got.val) = Elements(stored)
            /\ StrictlyAscending(ExampleIdsOf(got.val))
            /\ \A f \in Injections(n) :
                   LET other == [self EXCEPT !._example_evaluations[id] =
                                     [i \in 1..n |-> stored[f[i]]]]
                   IN  SameOutcome(example_evaluations(other, id), got)

\* three evaluations stored in an order that is not the order of their ids
C4_Witness ==
    /\ last.op = "example_evaluations"
    /\ Returned(last.ret)
    /\ Len(last.ret.val) = 3
    /\ StrictlyAscending(ExampleIdsOf(last.ret.val))
    /\ self._example_evaluations[last.args[1]] # last.ret.val
    /\ ~StrLess(self._example_evaluations[last.args[1]][1].example_id,
                self._example_evaluations[last.args[1]][2].example_id)

\* C5: for the id of a stored overview, example_evaluation returns a stored
\* evaluation of that overview with the requested example id when there is
\* one, and None when there is none, also when another overview has one.
C5_PointLookup ==
    \A id \in passed.store_evaluation_overview : \A example_id \in ExampleIds :
        LET stored == self._example_evaluations[id]
            got == example_evaluation(self, id, example_id)
        IN  IF \E i \in 1..Len(stored) : stored[i].example_id = example_id
            THEN /\ Returned(got)
                 /\ got.val \in Elements(stored)
                 /\ got.val.example_id = example_id
                 /\ got.val.evaluation_id = id
            ELSE ReturnedNone(got)

\* the lookup returned None although another overview holds the example id
C5_Witness ==
    /\ last.op = "example_evaluation"
    /\ ReturnedNone(last.ret)
    /\ last.args[1] \in passed.store_evaluation_overview
    /\ self._example_evaluations[last.args[1]] # <<>>
    /\ \E other \in DOMAIN self._example_evaluations \ {last.args[1]} :
           \E i \in 1..Len(self._example_evaluations[other]) :
               self._example_evaluations[other][i].example_id = last.args[2]

\* the lookup returned the evaluation of the requested example id, which is
\* not the first of the overview
C5_WitnessFound ==
    /\ last.op = "example_evaluation"
    /\ Returned(last.ret)
    /\ last.args[1] \in passed.store_evaluation_overview
    /\ last.ret.val.example_id = last.args[2]
    /\ Head(example_evaluations(self, last.args[1]).val) # last.ret.val

\* C6: evaluation_overview_ids returns the ids passed to
\* store_evaluation_overview, each once, in ascending str order.
C6_SortedOverviewIds ==
    LET got == evaluation_overview_ids(self)
    IN  /\ Returned(got)
        /\ Elements(got.val) = passed.store_evaluation_overview
        /\ StrictlyAscending(got.val)

\* both ids listed in ascending order, after "b" was stored before "ab" and
\* an id was stored again
C6_Witness ==
    /\ last.op = "store_evaluation_overview"
    /\ Returned(evaluation_overview(before, last.args[1].id))
    /\ DictKeys(self._evaluation_overviews) = <<(<<2>>), (<<1, 2>>)>>
    /\ evaluation_overview_ids(self).val = <<(<<1, 2>>), (<<2>>)>>

\* C7: store_example_evaluation(e) makes the collection of e.evaluation_id
\* one longer (a missing collection counts as empty), adds one occurrence of e
\* and removes nothing, also when the pair of ids is already stored; the
\* collections of the other ids and all overviews and partial overviews stay.
C7_AppendOnly ==
    last.op = "store_example_evaluation" =>
        LET e == last.args[1]
            id == e.evaluation_id
            old == IF Raised(example_evaluations(before, id)) THEN <<>>
                   ELSE example_evaluations(before, id).val
            got == example_evaluations(self, id)
        IN  /\ Returned(got)
            /\ Len(got.val) = Len(old) + 1
            /\ \A x \in Elements(got.val) \cup Elements(old) :
                   Count(got.val, x) = Count(old, x) + (IF x = e THEN 1 ELSE 0)
            /\ \A other \in EvaluationIds \ {id} :
                   SameOutcome(example_evaluations(self, other),
                               example_evaluations(before, other))
            /\ self._evaluation_overviews = before._evaluation_overviews
            /\ self._partial_evaluation_overviews
                   = before._partial_evaluation_overviews

\* an evaluation was stored whose pair of ids was stored before: both are kept
C7_Witness ==
    /\ last.op = "store_example_evaluation"
    /\ Returned(example_evaluations(before, last.args[1].evaluation_id))
    /\ last.args[1]
           \in Elements(example_evaluations(before, last.args[1].evaluation_id).val)
    /\ Count(example_evaluations(self, last.args[1].evaluation_id).val,
             last.args[1]) = 2
    /\ self._evaluation_overviews # <<>>

\* C8: store_evaluation_overview(o) of an overview that is stored already
\* leaves the repository as it was; with another overview stored under o.id
\* it makes evaluation_overview(o.id) return o and leaves the collection of
\* o.id, the overviews and collections of the other ids, the listed ids and
\* the partial overviews as they were.
C8_IdempotentUpsert ==
    (last.op = "store_evaluation_overview"
        /\ Returned(evaluation_overview(before, last.args[1].id))) =>
        LET o == last.args[1]
        IN  /\ Returns(evaluation_overview(before, o.id), o) => self = before
            /\ Returns(evaluation_overview(self, o.id), o)
            /\ self._example_evaluations = before._example_evaluations
            /\ \A other \in EvaluationIds \ {o.id} :
                   SameOutcome(evaluation_overview(self, other),
                               evaluation_overview(before, other))
            /\ SameOutcome(evaluation_overview_ids(self),
                           evaluation_overview_ids(before))
            /\ self._partial_evaluation_overviews
                   = before._partial_evaluation_overviews

\* another overview replaced the stored one of an id that holds evaluations,
\* next to an overview of another id
C8_Witness ==
    /\ last.op = "store_evaluation_overview"
    /\ Returned(evaluation_overview(before, last.args[1].id))
    /\ evaluation_overview(before, last.args[1].id).val # last.args[1]
    /\ Returns(evaluation_overview(self, last.args[1].id), last.args[1])
    /\ self._example_evaluations[last.args[1].id] # <<>>
    /\ Len(self._evaluation_overviews) = 2

\* C9: store_partial_evaluation_overview changes no evaluation_overview(id)
\* and not evaluation_overview_ids(); store_evaluation_overview changes no
\* partial_evaluation_overview(id) and not partial_evaluation_overview_ids();
\* right after store_partial_evaluation_overview(o),
\* partial_evaluation_overview(o.id) returns o; partial_evaluation_overview
\* returns None for an id never passed to store_partial_evaluation_overview;
\* partial_evaluation_overview_ids returns the ids passed to it, each once,
\* in ascending str order.
C9_PartialOverviewsAreIndependent ==
    /\ last.op = "store_partial_evaluation_overview" =>
           /\ \A id \in EvaluationIds :
                  SameOutcome(evaluation_overview(self, id),
                              evaluation_overview(before, id))
           /\ SameOutcome(evaluation_overview_ids(self),
                          evaluation_overview_ids(before))
           /\ Returns(partial_evaluation_overview(self, last.args[1].id),
                      last.args[1])
           /\ \A id \in EvaluationIds \ {last.args[1].id} :
                  SameOutcome(partial_evaluation_overview(self, id),
                              partial_evaluation_overview(before, id))
    /\ last.op = "store_evaluation_overview" =>
           /\ \A id \in EvaluationIds :
                  SameOutcome(partial_evaluation_overview(self, id),
                              partial_evaluation_overview(before, id))
           /\ SameOutcome(partial_evaluation_overview_ids(self),
                          partial_evaluation_overview_ids(before))
    /\ \A id \in EvaluationIds :
           id \notin passed.store_partial_evaluation_overview =>
               ReturnedNone(partial_evaluation_overview(self, id))
    /\ LET got == partial_evaluation_overview_ids(self)
       IN  /\ Returned(got)
           /\ Elements(got.val) = passed.store_partial_evaluation_overview
           /\ StrictlyAscending(got.val)

\* an overview was stored under the id of a partial overview, which stays,
\* and the partial overviews were stored in descending order of their ids
C9_Witness ==
    /\ last.op = "store_evaluation_overview"
    /\ Returned(partial_evaluation_overview(self, last.args[1].id))
    /\ partial_evaluation_overview(self, last.args[1].id).val.run
           # last.args[1].run
    /\ DictKeys(self._partial_evaluation_overviews) = <<(<<2>>), (<<1, 2>>)>>
    /\ Len(self._evaluation_overviews) = 1

----------------------------------------------------------------------------
(* Properties of the control models *)

\* C10: every request of a Llama3InstructModel holds the end-of-turn marker:
\* for stop_sequences None or empty the request holds the marker alone, for a
\* list without the marker it holds the list followed by the marker, a list
\* with the marker goes through as it is, and a second complete call with the
\* same input sends what the first sent.
C10_EotTokenInStopSequences ==
    model = "Llama3InstructModel" =>
        \A k \in 1..Len(requests) :
            LET sent == requests[k]
            IN  /\ sent.type = "list"
                /\ EOT_TOKEN \in Elements(sent.items)
                /\ (given.type = "NoneType" \/ given.items = <<>>) =>
                       sent.items = <<EOT_TOKEN>>
                /\ (given.type = "list" /\ EOT_TOKEN \notin Elements(given.items)) =>
                       /\ sent.items = given.items \o <<EOT_TOKEN>>
                       /\ Count(sent.items, EOT_TOKEN) = 1
                /\ (given.type = "list" /\ EOT_TOKEN \in Elements(given.items)) =>
                       sent = given
                /\ sent = requests[1]

\* two complete calls with a list of two entries that lacks the marker
C10_Witness ==
    /\ model = "Llama3InstructModel"
    /\ Len(requests) = 2
    /\ given.type = "list"
    /\ Len(given.items) = 2
    /\ EOT_TOKEN \notin Elements(given.items)
    /\ requests[2].items = given.items \o <<EOT_TOKEN>>

----------------------------------------------------------------------------
(* The reads *)

ReadOperations ==
    {"evaluation_overview", "evaluation_overview_ids", "example_evaluation",
     "example_evaluations", "partial_evaluation_overview",
     "partial_evaluation_overview_ids"}

\* C13: after each of the six reads, whether it returned a value, returned
\* None or raised, the repository is as it was when the call began; after
\* example_evaluations or example_evaluation raised for an id, the id has no
\* collection and both raise for it again.
C13_ReadsLeaveStateUnchanged ==
    last.op \in ReadOperations =>
        /\ self = before
        /\ (last.op \in {"example_evaluations", "example_evaluation"}
                /\ Raised(last.ret)) =>
               /\ last.args[1] \notin DOMAIN self._example_evaluations
               /\ Raised(example_evaluations(self, last.args[1]))
               /\ \A example_id \in ExampleIds :
                      Raised(example_evaluation(self, last.args[1], example_id))

\* example_evaluations raised for an unknown id while another id has an
\* overview, a partial overview and a result
C13_Witness ==
    /\ last.op = "example_evaluations"
    /\ Raised(last.ret)
    /\ self = before
    /\ last.args[1] \notin DOMAIN self._example_evaluations
    /\ self._evaluation_overviews # <<>>
    /\ self._partial_evaluation_overviews # <<>>
    /\ TotalEvaluations > 0

\* C14: example_evaluation raises the ValueError of example_evaluations for
\* every overview id that no store operation was given, which are the ids
\* without a collection; it returns None exactly when the id has a collection
\* that holds no entry of the example id; and a call that was made ended as
\* this rule says.
C14_PointLookupOfUnknownId ==
    /\ \A id \in EvaluationIds : \A example_id \in ExampleIds :
           LET got == example_evaluation(self, id, example_id)
               known == id \in DOMAIN self._example_evaluations
           IN  /\ NeverPassed(id) <=> ~known
               /\ Raised(got) <=> ~known
               /\ Raised(got) => got = example_evaluations(self, id)
               /\ ReturnedNone(got) <=>
                      /\ known
                      /\ \A i \in 1..Len(self._example_evaluations[id]) :
                             self._example_evaluations[id][i].example_id
                                 # example_id
    /\ last.op = "example_evaluation" =>
           last.ret = example_evaluation(before, last.args[1], last.args[2])

\* the point lookup raised for an id no store was given, although another
\* overview holds a result of the example id
C14_Witness ==
    /\ last.op = "example_evaluation"
    /\ Raised(last.ret)
    /\ NeverPassed(last.args[1])
    /\ \E id \in DOMAIN self._example_evaluations :
           \E i \in 1..Len(self._example_evaluations[id]) :
               self._example_evaluations[id][i].example_id = last.args[2]

----------------------------------------------------------------------------
(* The caller's CompleteInput *)

\* C12 as stated: after every complete call of every control model the
\* caller's CompleteInput holds the stop_sequences it was built with, and
\* the end-of-turn marker a Llama3InstructModel adds is in the request only.
C12_AsStated ==
    requests # <<>> => input = given

----------------------------------------------------------------------------
(* context_size *)

\* C11 as stated: a context_size read of a model object that had a value
\* returned before returns that value again and does not call models(),
\* whatever was read on other model objects in between; a read of an object
\* whose name is not in the registry raises ValueError.
C11_AsStated ==
    /\ read.again =>
           /\ read.object \in ModelObjects => read.ret = returned[read.object]
           /\ ~read.queried
    /\ (read.object \in ModelObjects
           /\ \A k \in 1..Len(models_info) :
                  models_info[k].name # names[read.object]) =>
           read.ret = ValueError

----------------------------------------------------------------------------
(* Concurrent writers *)

\* C15 as stated: once every writer thread has finished, example_evaluations
\* returns, for the id of each store_example_evaluation call, a sequence that
\* holds the evaluation of that call.
C15_AsStated ==
    (\A t \in DOMAIN threads : threads[t].pc = "done") =>
        \A t \in DOMAIN threads :
            threads[t].op = "store_example_evaluation" =>
                LET got == example_evaluations(self, threads[t].arg.evaluation_id)
                IN  /\ Returned(got)
                    /\ threads[t].arg \in Elements(got.val)

=============================================================================
